---------------------------- MODULE Spec2Model ----------------------------
(***************************************************************************)
(* Model of controller.py: the cascaded NonlinearController.  The six      *)
(* methods are operators applied by one action each; the state is the      *)
(* controller instance, the module's mutable arrays and the last call.     *)
(*                                                                         *)
(* Numbers.  A float is modelled as an exact rational n/d together with    *)
(* the IEEE-754 special values the code can produce: signed zero,          *)
(* +-infinity and NaN.  Rounding and overflow of finite values are not     *)
(* modelled.  np.pi is the symbol PI: an angle that yaw_control sees is    *)
(* r + p*PI with r, p rational.                                            *)
(***************************************************************************)
EXTENDS Integers, Sequences, FiniteSets, TLC

VARIABLES env, op, args, ret

vars == <<env, op, args, ret>>

(***************************************************************************)
(* Bounds of the explored inputs.                                          *)
(***************************************************************************)
\* yaw inputs are r + p*PI with r in -MaxYaw..MaxYaw and p in -1..1
MaxYaw == 3

\* body rates are 5*i rad/s per axis, i in -MaxRate..MaxRate
MaxRate == 2

\* horizontal position commands are integers in 0..MaxPos per axis
MaxPos == 2

\* altitude commands are integers in 0..MaxAlt
MaxAlt == 2

\* trajectories have 2..MaxLen waypoints
MaxLen == 3

\* waypoint timestamps are integers in 0..MaxTime; current_time runs over
\* the half-integers from -1 to MaxTime + 1
MaxTime == 3

\* waypoint positions are taken from MaxCoord + 1 points
MaxCoord == 1

(***************************************************************************)
(* Float arithmetic (numpy float64 semantics on exact rationals).          *)
(*   [k |-> "num", n, d, z]  the finite value n/d, d > 0, in lowest terms;  *)
(*                           z is its sign, and the sign of a zero         *)
(*   [k |-> "inf", z]        z * infinity                                  *)
(*   [k |-> "nan"]           NaN                                           *)
(***************************************************************************)
Abs(i) == IF i < 0 THEN -i ELSE i

RECURSIVE GCD(_, _)
GCD(a, b) == IF b = 0 THEN a ELSE GCD(b, a % b)

LCM(a, b) == (a \div GCD(a, b)) * b

NaN == [k |-> "nan", n |-> 0, d |-> 1, z |-> 1]

Inf(s) == [k |-> "inf", n |-> 0, d |-> 1, z |-> s]

\* the finite value n/d (d /= 0); a zero gets the sign zs
QZ(n, d, zs) ==
    LET g  == GCD(Abs(n), Abs(d))
        nn == IF d < 0 THEN -n ELSE n
    IN  [k |-> "num", n |-> nn \div g, d |-> Abs(d) \div g,
         z |-> IF nn < 0 THEN -1 ELSE IF nn > 0 THEN 1 ELSE zs]

Q(n, d) == QZ(n, d, 1)

IsNaN(a) == a.k = "nan"

IsFinite(a) == a.k = "num"

IsZero(a) == a.k = "num" /\ a.n = 0

FNeg(a) == IF IsNaN(a) THEN a ELSE [a EXCEPT !.n = -a.n, !.z = -a.z]

FAdd(a, b) ==
    IF IsNaN(a) \/ IsNaN(b) THEN NaN
    ELSE IF a.k = "inf" /\ b.k = "inf" THEN (IF a.z = b.z THEN a ELSE NaN)
    ELSE IF a.k = "inf" THEN a
    ELSE IF b.k = "inf" THEN b
    ELSE LET l == LCM(a.d, b.d)
         IN  QZ(a.n * (l \div a.d) + b.n * (l \div b.d), l,
                IF a.n = 0 /\ b.n = 0 /\ a.z = -1 /\ b.z = -1 THEN -1 ELSE 1)

FSub(a, b) == FAdd(a, FNeg(b))

FMul(a, b) ==
    IF IsNaN(a) \/ IsNaN(b) THEN NaN
    ELSE IF a.k = "inf" \/ b.k = "inf"
         THEN (IF IsZero(a) \/ IsZero(b) THEN NaN ELSE Inf(a.z * b.z))
    ELSE LET g == GCD(Abs(a.n), b.d)
             h == GCD(Abs(b.n), a.d)
         IN  QZ((a.n \div g) * (b.n \div h), (a.d \div h) * (b.d \div g), a.z * b.z)

\* numpy true division: x/0 is +-inf, 0/0 and inf/inf are NaN, no exception
FDiv(a, b) ==
    IF IsNaN(a) \/ IsNaN(b) THEN NaN
    ELSE IF a.k = "inf" THEN (IF b.k = "inf" THEN NaN ELSE Inf(a.z * b.z))
    ELSE IF b.k = "inf" THEN QZ(0, 1, a.z * b.z)
    ELSE IF b.n = 0 THEN (IF a.n = 0 THEN NaN ELSE Inf(a.z * b.z))
    ELSE LET g == GCD(Abs(a.n), Abs(b.n))
             h == GCD(a.d, b.d)
         IN  QZ((a.n \div g) * (b.d \div h), (a.d \div h) * (b.n \div g), a.z * b.z)

\* a < b; every comparison with NaN is false
FLt(a, b) ==
    /\ ~IsNaN(a)
    /\ ~IsNaN(b)
    /\ IF a.k = "inf" THEN a.z = -1 /\ ~(b.k = "inf" /\ b.z = -1)
       ELSE IF b.k = "inf" THEN b.z = 1
       ELSE LET l == LCM(a.d, b.d)
            IN  a.n * (l \div a.d) < b.n * (l \div b.d)

FGt(a, b) == FLt(b, a)

FLe(a, b) == ~IsNaN(a) /\ ~IsNaN(b) /\ ~FLt(b, a)

\* equality of values (+0 = -0, NaN /= NaN)
FEq(a, b) == FLe(a, b) /\ FLe(b, a)

(***************************************************************************)
(* Angles of yaw_control: the value r + p*PI.                              *)
(***************************************************************************)
Ang(r, p) == [r |-> r, p |-> p]

AngSub(a, b) == Ang(FSub(a.r, b.r), FSub(a.p, b.p))

AngScale(c, a) == Ang(FMul(c, a.r), FMul(c, a.p))

\* r > c*PI for rationals r, c.  PI lies strictly between 333/106 and
\* 355/113, and no r/c of the explored inputs lies between those two.
GtPiTimes(r, c) ==
    IF IsZero(c) THEN FGt(r, Q(0, 1))
    ELSE IF c.z = 1 THEN FLe(Q(355, 113), FDiv(r, c))
    ELSE FLe(FDiv(r, c), Q(333, 106))

\* a > b for angles
AngGt(a, b) == GtPiTimes(FSub(a.r, b.r), FSub(b.p, a.p))

AngLt(a, b) == AngGt(b, a)

PI == Ang(Q(0, 1), Q(1, 1))

NegPI == Ang(Q(0, 1), Q(-1, 1))

TwoPI == Ang(Q(0, 1), Q(2, 1))

(***************************************************************************)
(* Module constants and construction.                                      *)
(***************************************************************************)
DRONE_MASS_KG == Q(1, 2)

GRAVITY == Q(-981, 100)

MOI == <<Q(5, 1000), Q(5, 1000), Q(1, 100)>>

MAX_THRUST == Q(10, 1)

MAX_TORQUE == Q(1, 1)

\* NonlinearController() with the default gains
DefaultGains ==
    [z_k_p |-> Q(20, 1), z_k_d |-> Q(6, 1),
     x_k_p |-> Q(1, 4), x_k_d |-> Q(1, 4),
     y_k_p |-> Q(1, 4), y_k_d |-> Q(1, 4),
     k_p_roll |-> Q(4, 1), k_p_pitch |-> Q(4, 1), k_p_yaw |-> Q(5, 1),
     k_p_p |-> Q(27, 1), k_p_q |-> Q(27, 1), k_p_r |-> Q(10, 1),
     max_roll_rad |-> Q(1, 1), max_pitch_rad |-> Q(1, 1)]

\* the keyword arguments the explored constructions pass
Gains ==
    { DefaultGains,
      [DefaultGains EXCEPT !.y_k_p = Q(1, 2)],
      [z_k_p |-> Q(10, 1), z_k_d |-> Q(3, 1),
       x_k_p |-> Q(1, 2), x_k_d |-> Q(1, 1),
       y_k_p |-> Q(3, 4), y_k_d |-> Q(3, 2),
       k_p_roll |-> Q(2, 1), k_p_pitch |-> Q(3, 1), k_p_yaw |-> Q(3, 2),
       k_p_p |-> Q(20, 1), k_p_q |-> Q(15, 1), k_p_r |-> Q(5, 1),
       max_roll_rad |-> Q(1, 2), max_pitch_rad |-> Q(3, 2)] }

\* the interpreter's state once the module is loaded and __init__ has run:
\* the instance, the module-level array MOI, and the array that is the
\* default value of lateral_position_control's acceleration_ff
__init__(gains) ==
    [MOI |-> MOI, self |-> gains, acceleration_ff |-> <<Q(0, 1), Q(0, 1)>>]

\* what a method leaves behind: its return value and the interpreter state
Outcome(r, e) == [env |-> e, ret |-> r]

(***************************************************************************)
(* yaw_control                                                             *)
(***************************************************************************)
\* a slip: the wrap below -PI subtracts instead of adding
yaw_err_wrapped_wrong_sign(yaw_cmd, yaw) ==
    LET yaw_err == AngSub(yaw_cmd, yaw)
    IN  IF AngGt(yaw_err, PI) THEN AngSub(yaw_err, TwoPI)
        ELSE IF AngLt(yaw_err, NegPI) THEN AngSub(yaw_err, TwoPI)
        ELSE yaw_err

\* the local yaw_err after the wrap
yaw_err_wrapped(yaw_cmd, yaw) ==
    LET yaw_err == AngSub(yaw_cmd, yaw)
    IN  IF AngGt(yaw_err, PI) THEN AngSub(yaw_err, TwoPI)
        ELSE IF AngLt(yaw_err, NegPI) THEN AngSub(yaw_err, Ang(Q(0, 1), Q(-2, 1)))
        ELSE yaw_err

yaw_control(e, yaw_cmd, yaw) ==
    Outcome(AngScale(e.self.k_p_yaw, yaw_err_wrapped(yaw_cmd, yaw)), e)

YawValues ==
    { Ang(Q(r, 1), Q(p, 1)) : r \in -MaxYaw..MaxYaw, p \in -1..1 }

(***************************************************************************)
(* Vectors                                                                 *)
(***************************************************************************)
VecSub(u, v) == [i \in DOMAIN u |-> FSub(u[i], v[i])]

VecAdd(u, v) == [i \in DOMAIN u |-> FAdd(u[i], v[i])]

VecScale(u, c) == [i \in DOMAIN u |-> FMul(u[i], c)]

VecDiv(u, c) == [i \in DOMAIN u |-> FDiv(u[i], c)]

\* np.multiply: the element-wise product
multiply(u, v) == [i \in DOMAIN u |-> FMul(u[i], v[i])]

RECURSIVE SumSq(_, _)
SumSq(v, i) == IF i = 0 THEN Q(0, 1) ELSE FAdd(SumSq(v, i - 1), FMul(v[i], v[i]))

(***************************************************************************)
(* body_rate_control                                                       *)
(*                                                                         *)
(* A moment is [v, over]: the vector v / sqrt(over), with over = 1 for a   *)
(* rational vector.  np.linalg.norm(m) is sqrt(SumSq(m)), kept as its      *)
(* square.                                                                 *)
(***************************************************************************)
\* the square of np.linalg.norm of the moment m
linalg_norm_sq(m) == FDiv(SumSq(m.v, Len(m.v)), m.over)

\* the local moment_cmd of line 220
raw_moment(e, body_rate_cmd, body_rate) ==
    LET p_err   == FSub(body_rate_cmd[1], body_rate[1])
        u_bar_p == FMul(e.self.k_p_p, p_err)
        q_err   == FSub(body_rate_cmd[2], body_rate[2])
        u_bar_q == FMul(e.self.k_p_q, q_err)
        r_err   == FSub(body_rate_cmd[3], body_rate[3])
        u_bar_r == FMul(e.self.k_p_r, r_err)
    IN  [v |-> multiply(e.MOI, <<u_bar_p, u_bar_q, u_bar_r>>), over |-> Q(1, 1)]

\* a slip: the moment divided by the square of its norm
rescaled_by_norm_sq(moment_cmd) ==
    [v |-> VecScale(moment_cmd.v, MAX_TORQUE),
     over |-> FMul(linalg_norm_sq(moment_cmd), linalg_norm_sq(moment_cmd))]

\* moment_cmd*MAX_TORQUE/np.linalg.norm(moment_cmd), for a rational moment_cmd
rescaled(moment_cmd) ==
    [v |-> VecScale(moment_cmd.v, MAX_TORQUE),
     over |-> linalg_norm_sq(moment_cmd)]

\* above MAX_TORQUE or not, as line 222 decides
saturate(moment_cmd) ==
    IF FGt(linalg_norm_sq(moment_cmd), FMul(MAX_TORQUE, MAX_TORQUE))
    THEN rescaled(moment_cmd)
    ELSE moment_cmd

\* a slip: np.multiply(MOI, ..., out=MOI) writes the product into the
\* module's array
body_rate_control_in_place(e, body_rate_cmd, body_rate) ==
    LET moment_cmd == raw_moment(e, body_rate_cmd, body_rate)
    IN  Outcome(saturate(moment_cmd), [e EXCEPT !.MOI = moment_cmd.v])

body_rate_control(e, body_rate_cmd, body_rate) ==
    LET moment_cmd == raw_moment(e, body_rate_cmd, body_rate)
    IN  Outcome(saturate(moment_cmd), e)

RateCmds ==
    { <<Q(5 * p, 1), Q(5 * q, 1), Q(5 * r, 1)>> :
        p \in -MaxRate..MaxRate, q \in -MaxRate..MaxRate, r \in -MaxRate..MaxRate }

Rates == { <<Q(0, 1), Q(0, 1), Q(0, 1)>>, <<Q(1, 1), Q(-1, 2), Q(2, 1)>> }

(***************************************************************************)
(* lateral_position_control                                                *)
(***************************************************************************)
\* acceleration_ff is Omitted when the caller does not pass the argument: the
\* parameter is then bound to the one array built when the def was executed
Omitted == <<>>

\* the gain that multiplies y_err on line 129 (x_k_p, and not y_k_p)
y_err_gain_uses_y_k_p(self) == self.y_k_p

y_err_gain(self) == self.x_k_p

lateral_position_control(e, local_position_cmd, local_velocity_cmd, local_position, local_velocity, acceleration_ff) ==
    LET ff            == IF acceleration_ff = Omitted
                         THEN e.acceleration_ff ELSE acceleration_ff
        x_dot_dot_acc == ff[1]
        y_dot_dot_acc == ff[2]
        x_dot_err     == FSub(local_velocity_cmd[1], local_velocity[1])
        x_err         == FSub(local_position_cmd[1], local_position[1])
        x_dot_dot     == FAdd(FAdd(FMul(e.self.x_k_p, x_err),
                                   FMul(e.self.x_k_d, x_dot_err)), x_dot_dot_acc)
        y_dot_err     == FSub(local_velocity_cmd[2], local_velocity[2])
        y_err         == FSub(local_position_cmd[2], local_position[2])
        y_dot_dot     == FAdd(FAdd(FMul(y_err_gain(e.self), y_err),
                                   FMul(e.self.y_k_d, y_dot_err)), y_dot_dot_acc)
    IN  Outcome(<<FNeg(x_dot_dot), FNeg(y_dot_dot)>>, e)

PositionCmds == { <<Q(x, 1), Q(y, 1)>> : x \in 0..MaxPos, y \in 0..MaxPos }

VelocityCmds == { <<Q(0, 1), Q(0, 1)>>, <<Q(1, 1), Q(-1, 1)>> }

Positions == { <<Q(0, 1), Q(0, 1)>>, <<Q(1, 1), Q(2, 1)>> }

Velocities == { <<Q(0, 1), Q(0, 1)>>, <<Q(-1, 2), Q(2, 1)>> }

FeedForwards == { Omitted, <<Q(1, 2), Q(-1, 1)>> }

(***************************************************************************)
(* Attitude angles and frame_utils.euler2RM                                *)
(*                                                                         *)
(* An attitude angle is given by its cosine and sine (exact rationals)     *)
(* and by the two consecutive milliradians lo <= angle <= hi around its    *)
(* value in radians (lo = hi when the value is a whole milliradian).       *)
(***************************************************************************)
Angle(c, s, lo, hi) == [s |-> s, c |-> c, lo |-> lo, hi |-> hi]

Zero == Angle(Q(1, 1), Q(0, 1), 0, 0)

\* atan(3/4) = 0.6435...
Atan34 == Angle(Q(4, 5), Q(3, 5), 643, 644)

NegAtan34 == Angle(Q(4, 5), Q(-3, 5), -644, -643)

\* atan(4/3) = 0.9272...
Atan43 == Angle(Q(3, 5), Q(4, 5), 927, 928)

\* pi/2 = 1.5707...
HalfPi == Angle(Q(0, 1), Q(1, 1), 1570, 1571)

NegHalfPi == Angle(Q(0, 1), Q(-1, 1), -1571, -1570)

\* pi - atan(4/3) = 2.2142...
PiMinusAtan43 == Angle(Q(-3, 5), Q(4, 5), 2214, 2215)

\* pi = 3.1415...
FullPi == Angle(Q(-1, 1), Q(0, 1), 3141, 3142)

\* angle > m and angle < m for a rational m (in radians) that is not
\* strictly between lo and hi
AngleGt(a, m) == FLe(m, Q(a.lo, 1000)) /\ FLt(m, Q(a.hi, 1000))

AngleLt(a, m) == FLe(Q(a.hi, 1000), m) /\ FLt(Q(a.lo, 1000), m)

\* the body-to-NED rotation matrix Rz(yaw) * Ry(pitch) * Rx(roll)
euler2RM(roll, pitch, yaw) ==
    LET cr == roll.c
        sr == roll.s
        cp == pitch.c
        sp == pitch.s
        cy == yaw.c
        sy == yaw.s
    IN  << << FMul(cp, cy),
              FSub(FMul(FMul(sr, sp), cy), FMul(cr, sy)),
              FAdd(FMul(FMul(cr, sp), cy), FMul(sr, sy)) >>,
           << FMul(cp, sy),
              FAdd(FMul(FMul(sr, sp), sy), FMul(cr, cy)),
              FSub(FMul(FMul(cr, sp), sy), FMul(sr, cy)) >>,
           << FNeg(sp), FMul(sr, cp), FMul(cr, cp) >> >>

\* rot_mat[i, j], with the source's indices from 0
At2(rot_mat, i, j) == rot_mat[i + 1][j + 1]

TiltAngles ==
    { Zero, Atan34, NegAtan34, HalfPi, NegHalfPi, PiMinusAtan43, FullPi }

Attitudes ==
    { <<roll, pitch, yaw>> :
        roll \in TiltAngles, pitch \in TiltAngles, yaw \in {Zero, Atan43} }

(***************************************************************************)
(* altitude_control                                                        *)
(***************************************************************************)
\* np.clip(c, lo, hi): NaN stays NaN
clip(c, lo, hi) ==
    IF IsNaN(c) THEN c
    ELSE IF FLt(c, lo) THEN lo
    ELSE IF FGt(c, hi) THEN hi
    ELSE c

altitude_control(e, altitude_cmd, vertical_velocity_cmd, altitude, vertical_velocity, attitude, acceleration_ff) ==
    LET rot_mat   == euler2RM(attitude[1], attitude[2], attitude[3])
        z_err     == FSub(altitude_cmd, altitude)
        z_err_dot == FSub(vertical_velocity_cmd, vertical_velocity)
        b_z       == At2(rot_mat, 2, 2)
        p_term    == FMul(e.self.z_k_p, z_err)
        d_term    == FMul(e.self.z_k_d, z_err_dot)
        u_1_bar   == FAdd(FAdd(p_term, d_term), acceleration_ff)
        c         == FDiv(FSub(u_1_bar, GRAVITY), b_z)
        thrust    == clip(c, Q(0, 1), MAX_THRUST)
    IN  Outcome(thrust, e)

AltitudeCmds == { Q(z, 1) : z \in 0..MaxAlt }

\* the default 0.0, a climb, and the feed-forward that cancels gravity
VerticalFeedForwards == { Q(0, 1), Q(1, 1), Q(-981, 100) }

(***************************************************************************)
(* roll_pitch_controller                                                   *)
(***************************************************************************)
\* a slip: only the positive limit is tested
exceeds_positive_only(angle, max_rad) == AngleGt(angle, max_rad)

\* angle > max_rad or angle < -max_rad, the test of lines 192 and 194
exceeds(angle, max_rad) == AngleGt(angle, max_rad) \/ AngleLt(angle, FNeg(max_rad))

roll_pitch_controller(e, acceleration_cmd, attitude, thrust_cmd) ==
    LET b_x_c      == acceleration_cmd[1]
        b_y_c      == acceleration_cmd[2]
        rot_mat    == euler2RM(attitude[1], attitude[2], attitude[3])
        b_x_err    == FSub(b_x_c, At2(rot_mat, 0, 2))
        b_x_p_term == FMul(e.self.k_p_roll, b_x_err)
        b_y_err    == FSub(b_y_c, At2(rot_mat, 1, 2))
        b_y_p_term == FMul(e.self.k_p_pitch, b_y_err)
        rot_mat1   ==
            << << FDiv(At2(rot_mat, 1, 0), At2(rot_mat, 2, 2)),
                  FDiv(FNeg(At2(rot_mat, 0, 0)), At2(rot_mat, 2, 2)) >>,
               << FDiv(At2(rot_mat, 1, 1), At2(rot_mat, 2, 2)),
                  FDiv(FNeg(At2(rot_mat, 0, 1)), At2(rot_mat, 2, 2)) >> >>
        rot_rate   ==
            << FAdd(FMul(rot_mat1[1][1], b_x_p_term), FMul(rot_mat1[1][2], b_y_p_term)),
               FAdd(FMul(rot_mat1[2][1], b_x_p_term), FMul(rot_mat1[2][2], b_y_p_term)) >>
        p_c        == IF exceeds(attitude[1], e.self.max_roll_rad)
                      THEN Q(0, 1) ELSE rot_rate[1]
        q_c        == IF exceeds(attitude[2], e.self.max_pitch_rad)
                      THEN Q(0, 1) ELSE rot_rate[2]
    IN  Outcome(<<p_c, q_c>>, e)

AccelerationCmds == { <<Q(x, 2), Q(y, 2)>> : x \in {-1, 0, 1}, y \in {-1, 0, 1} }

(***************************************************************************)
(* trajectory_control                                                      *)
(***************************************************************************)
FAbs(a) == IF FLt(a, Q(0, 1)) THEN FNeg(a) ELSE a

\* np.argmin(np.abs(np.array(time_trajectory) - current_time)): the first
\* index (from 0) of a smallest distance
argmin_abs(time_trajectory, current_time) ==
    LET dist(i) == FAbs(FSub(time_trajectory[i + 1], current_time))
        n       == Len(time_trajectory)
    IN  CHOOSE i \in 0..(n - 1) :
            /\ \A j \in 0..(n - 1) : FLe(dist(i), dist(j))
            /\ \A j \in 0..(i - 1) : FLt(dist(i), dist(j))

\* list[i] of Python: a negative index counts from the end
PyItem(list, i) == IF i < 0 THEN list[Len(list) + i + 1] ELSE list[i + 1]

\* a slip: <= in the test of line 71
is_before_or_at(current_time, time_ref) == FLe(current_time, time_ref)

\* current_time < time_ref, the test of line 71
is_before(current_time, time_ref) == FLt(current_time, time_ref)

\* a slip: past the final waypoint the last segment is extrapolated
bracket_extrapolating(position_trajectory, time_trajectory, current_time) ==
    LET ind_min  == argmin_abs(time_trajectory, current_time)
        time_ref == PyItem(time_trajectory, ind_min)
    IN  IF is_before(current_time, time_ref)
        THEN [ind_min |-> ind_min, i0 |-> ind_min - 1, i1 |-> ind_min,
              time0 |-> PyItem(time_trajectory, ind_min - 1),
              time1 |-> PyItem(time_trajectory, ind_min),
              iyaw |-> ind_min - 1]
        ELSE IF ind_min >= Len(position_trajectory) - 1
        THEN [ind_min |-> ind_min, i0 |-> ind_min - 1, i1 |-> ind_min,
              time0 |-> PyItem(time_trajectory, ind_min - 1),
              time1 |-> PyItem(time_trajectory, ind_min), iyaw |-> ind_min]
        ELSE [ind_min |-> ind_min, i0 |-> ind_min, i1 |-> ind_min + 1,
              time0 |-> PyItem(time_trajectory, ind_min),
              time1 |-> PyItem(time_trajectory, ind_min + 1),
              iyaw |-> ind_min]

\* the waypoints lines 67-92 choose: i0, i1 index position_trajectory for
\* position0, position1 as the code writes them; iyaw indexes yaw_trajectory
bracket(position_trajectory, time_trajectory, current_time) ==
    LET ind_min  == argmin_abs(time_trajectory, current_time)
        time_ref == PyItem(time_trajectory, ind_min)
    IN  IF is_before(current_time, time_ref)
        THEN [ind_min |-> ind_min, i0 |-> ind_min - 1, i1 |-> ind_min,
              time0 |-> PyItem(time_trajectory, ind_min - 1),
              time1 |-> PyItem(time_trajectory, ind_min),
              iyaw |-> ind_min - 1]
        ELSE IF ind_min >= Len(position_trajectory) - 1
        THEN [ind_min |-> ind_min, i0 |-> ind_min, i1 |-> ind_min,
              time0 |-> Q(0, 1), time1 |-> Q(1, 1), iyaw |-> ind_min]
        ELSE [ind_min |-> ind_min, i0 |-> ind_min, i1 |-> ind_min + 1,
              time0 |-> PyItem(time_trajectory, ind_min),
              time1 |-> PyItem(time_trajectory, ind_min + 1),
              iyaw |-> ind_min]

trajectory_control(e, position_trajectory, yaw_trajectory, time_trajectory, current_time) ==
    LET b            == bracket(position_trajectory, time_trajectory, current_time)
        position0    == PyItem(position_trajectory, b.i0)
        position1    == PyItem(position_trajectory, b.i1)
        yaw_cmd      == PyItem(yaw_trajectory, b.iyaw)
        position_cmd ==
            VecAdd(VecDiv(VecScale(VecSub(position1, position0),
                                   FSub(current_time, b.time0)),
                          FSub(b.time1, b.time0)),
                   position0)
        velocity_cmd == VecDiv(VecSub(position1, position0), FSub(b.time1, b.time0))
    IN  Outcome(<<position_cmd, velocity_cmd, yaw_cmd>>, e)

\* the explored waypoints: NED points on a climbing line
Waypoint(x) == <<Q(x, 1), Q(2 * x - 1, 1), Q(-x, 1)>>

Lengths == 2..MaxLen

\* strictly increasing timestamps, as the caller must supply
TimeTrajectories ==
    UNION { { t \in [1..n -> 0..MaxTime] : \A i \in 1..(n - 1) : t[i] < t[i + 1] } :
            n \in Lengths }

\* the yaw commands along a trajectory: constant, or turning
YawTrajectories(n) == { [i \in 1..n |-> Q(0, 1)], [i \in 1..n |-> Q(i, 2)] }

CurrentTimes == { Q(h, 2) : h \in -2..(2 * MaxTime + 2) }

(***************************************************************************)
(* Specification                                                           *)
(***************************************************************************)
\* the state after construction; no call is in progress
Init ==
    /\ env \in { __init__(g) : g \in Gains }
    /\ op = "idle"
    /\ args = <<>>
    /\ ret = "None"

\* a method was called with the arguments a and has run to its return with
\* the outcome out.  (The records of this module list their fields in the
\* order the model checker keeps them in.)
Call(name, a, out) ==
    /\ op' = name
    /\ args' = a
    /\ ret' = out.ret
    /\ env' = out.env

\* the caller takes the returned value; the controller is idle again
Return ==
    /\ op /= "idle"
    /\ op' = "idle"
    /\ args' = <<>>
    /\ ret' = "None"
    /\ UNCHANGED env

TrajectoryControl ==
    /\ op = "idle"
    /\ \E t \in TimeTrajectories, current_time \in CurrentTimes :
           \E x \in [DOMAIN t -> 0..MaxCoord], yaw_trajectory \in YawTrajectories(Len(t)) :
               Call("trajectory_control",
                    [time_trajectory |-> [i \in DOMAIN t |-> Q(t[i], 1)],
                     current_time |-> current_time,
                     position_trajectory |-> [i \in DOMAIN t |-> Waypoint(x[i])],
                     yaw_trajectory |-> yaw_trajectory],
                    trajectory_control(env, [i \in DOMAIN t |-> Waypoint(x[i])],
                                       yaw_trajectory,
                                       [i \in DOMAIN t |-> Q(t[i], 1)], current_time))

LateralPositionControl ==
    /\ op = "idle"
    /\ \E pc \in PositionCmds, vc \in VelocityCmds, p \in Positions,
          v \in Velocities, ff \in FeedForwards :
           Call("lateral_position_control",
                [acceleration_ff |-> ff,
                 local_position_cmd |-> pc, local_velocity_cmd |-> vc,
                 local_position |-> p, local_velocity |-> v],
                lateral_position_control(env, pc, vc, p, v, ff))

AltitudeControl ==
    /\ op = "idle"
    /\ \E altitude_cmd \in AltitudeCmds, vertical_velocity_cmd \in {Q(0, 1), Q(1, 1)},
          altitude \in {Q(0, 1), Q(1, 1)}, vertical_velocity \in {Q(0, 1)},
          attitude \in Attitudes, acceleration_ff \in VerticalFeedForwards :
           Call("altitude_control",
                [acceleration_ff |-> acceleration_ff,
                 altitude_cmd |-> altitude_cmd,
                 vertical_velocity_cmd |-> vertical_velocity_cmd,
                 altitude |-> altitude, vertical_velocity |-> vertical_velocity,
                 attitude |-> attitude],
                altitude_control(env, altitude_cmd, vertical_velocity_cmd, altitude,
                                 vertical_velocity, attitude, acceleration_ff))

RollPitchController ==
    /\ op = "idle"
    /\ \E acceleration_cmd \in AccelerationCmds, attitude \in Attitudes,
          thrust_cmd \in {Q(0, 1), Q(5, 1)} :
           Call("roll_pitch_controller",
                [attitude |-> attitude, acceleration_cmd |-> acceleration_cmd,
                 thrust_cmd |-> thrust_cmd],
                roll_pitch_controller(env, acceleration_cmd, attitude, thrust_cmd))

BodyRateControl ==
    /\ op = "idle"
    /\ \E body_rate_cmd \in RateCmds, body_rate \in Rates :
           Call("body_rate_control",
                [body_rate_cmd |-> body_rate_cmd, body_rate |-> body_rate],
                body_rate_control(env, body_rate_cmd, body_rate))

YawControl ==
    /\ op = "idle"
    /\ \E yaw_cmd \in YawValues, yaw \in YawValues :
           Call("yaw_control", [yaw_cmd |-> yaw_cmd, yaw |-> yaw],
                yaw_control(env, yaw_cmd, yaw))

Next ==
    \/ TrajectoryControl
    \/ LateralPositionControl
    \/ AltitudeControl
    \/ RollPitchController
    \/ YawControl
    \/ BodyRateControl
    \/ LateralPositionControl
    \/ Return

Spec == Init /\ [][Next]_vars

(***************************************************************************)
(* Properties                                                              *)
(***************************************************************************)
VecEq(u, v) == DOMAIN u = DOMAIN v /\ \A i \in DOMAIN u : FEq(u[i], v[i])

AngEq(a, b) == FEq(a.r, b.r) /\ FEq(a.p, b.p)

\* R[2,2] of the attitude a call was given
BzOf(attitude) == At2(euler2RM(attitude[1], attitude[2], attitude[3]), 2, 2)

\* C1: whatever the inputs, also with b_z zero or negative, altitude_control
\* returns a number t with 0 <= t <= MAX_THRUST.
C1_ThrustWithinLimits ==
    op = "altitude_control" =>
        IsFinite(ret) /\ FLe(Q(0, 1), ret) /\ FLe(ret, MAX_THRUST)

\* C8: with b_z = 0, altitude_control does not return a thrust clipped to 0
\* or to MAX_THRUST, nor NaN: the condition is surfaced as an error.
C8_ZeroBzIsSurfaced ==
    (op = "altitude_control" /\ IsZero(BzOf(args.attitude))) =>
        ~(IsNaN(ret) \/ FEq(ret, Q(0, 1)) \/ FEq(ret, MAX_THRUST))

\* the square of MAX_TORQUE
MaxTorqueSq == FMul(MAX_TORQUE, MAX_TORQUE)

\* the moment m is the rational vector raw times one positive scalar
SameDirection(m, raw) ==
    /\ \A i, j \in 1..3 : FEq(FMul(m.v[i], raw[j]), FMul(m.v[j], raw[i]))
    /\ \A i \in 1..3 : FLe(Q(0, 1), FMul(m.v[i], raw[i]))
    /\ \E i \in 1..3 : FLt(Q(0, 1), FMul(m.v[i], raw[i]))

\* C2: the norm of the moment body_rate_control returns is at most
\* MAX_TORQUE; a raw moment MOI * Kp * rate_err within the limit is returned
\* unchanged, and one above it comes back in the same direction with norm
\* exactly MAX_TORQUE.
C2_MomentNormBounded ==
    op = "body_rate_control" =>
        LET rate_err == VecSub(args.body_rate_cmd, args.body_rate)
            gain     == <<env.self.k_p_p, env.self.k_p_q, env.self.k_p_r>>
            raw      == multiply(MOI, multiply(gain, rate_err))
            raw_sq   == SumSq(raw, 3)
        IN  /\ FLe(linalg_norm_sq(ret), MaxTorqueSq)
            /\ FLe(raw_sq, MaxTorqueSq) => ret = [v |-> raw, over |-> Q(1, 1)]
            /\ FGt(raw_sq, MaxTorqueSq) =>
                   /\ SameDirection(ret, raw)
                   /\ FEq(linalg_norm_sq(ret), MaxTorqueSq)

\* a raw moment above the limit was rescaled, and one exactly at the limit
\* was returned as it is
C2_Witness ==
    /\ op = "body_rate_control"
    /\ FGt(SumSq(raw_moment(env, args.body_rate_cmd, args.body_rate).v, 3), MaxTorqueSq)
    /\ ret.over /= Q(1, 1)

\* |a| <= 2*PI
WithinOneRevolution(a) ==
    ~AngGt(a, TwoPI) /\ ~AngLt(a, Ang(Q(0, 1), Q(-2, 1)))

\* the errors e that differ from yaw_cmd - yaw by a multiple of 2*PI and
\* that the returned rate is k_p_yaw times
WrappedErrors ==
    LET raw == AngSub(args.yaw_cmd, args.yaw)
    IN  { e \in { AngSub(raw, Ang(Q(0, 1), Q(2 * m, 1))) : m \in -1..1 } :
            AngEq(ret, AngScale(env.self.k_p_yaw, e)) }

InClosedRange(e) == ~AngLt(e, NegPI) /\ ~AngGt(e, PI)

InHalfOpenRange(e) == AngGt(e, NegPI) /\ ~AngGt(e, PI)

YawCallWithinOneRevolution ==
    op = "yaw_control" /\ WithinOneRevolution(AngSub(args.yaw_cmd, args.yaw))

\* C3 as stated: for |yaw_cmd - yaw| <= 2*PI, yaw_control returns
\* k_p_yaw * e with e = yaw_cmd - yaw modulo 2*PI and e in (-PI, PI], and
\* it returns 0 when yaw_cmd = yaw.
C3_YawErrorHalfOpen ==
    YawCallWithinOneRevolution =>
        /\ \E e \in WrappedErrors : InHalfOpenRange(e)
        /\ args.yaw_cmd = args.yaw => AngEq(ret, Ang(Q(0, 1), Q(0, 1)))

\* C3 amended: the same with e in the closed interval [-PI, PI]; e is -PI
\* when yaw_cmd - yaw is exactly -PI.
C3_YawErrorClosed ==
    YawCallWithinOneRevolution =>
        /\ \E e \in WrappedErrors : InClosedRange(e)
        /\ args.yaw_cmd = args.yaw => AngEq(ret, Ang(Q(0, 1), Q(0, 1)))

\* the spec's wrap-around case yaw = 3.0, yaw_cmd = -3.0: the error -6.0
\* was wrapped to 2*PI - 6.0
C3_Witness ==
    /\ op = "yaw_control"
    /\ args.yaw_cmd = Ang(Q(-3, 1), Q(0, 1))
    /\ args.yaw = Ang(Q(3, 1), Q(0, 1))
    /\ ret = AngScale(env.self.k_p_yaw, Ang(Q(-6, 1), Q(2, 1)))

\* the waypoint index (from 0) a Python index denotes
Resolve(i, n) == IF i < 0 THEN n + i ELSE i

\* the forward difference of the trajectory at waypoint i (from 0)
ForwardDifference(a, i) ==
    VecDiv(VecSub(PyItem(a.position_trajectory, i + 1), PyItem(a.position_trajectory, i)),
           FSub(PyItem(a.time_trajectory, i + 1), PyItem(a.time_trajectory, i)))

\* C4: sampled at the timestamp of a waypoint i that has a successor,
\* trajectory_control returns that waypoint's position and yaw and the
\* forward difference to the next waypoint as the velocity.
C4_ExactAtWaypoints ==
    op = "trajectory_control" =>
        \A i \in 0..(Len(args.time_trajectory) - 2) :
            args.current_time = PyItem(args.time_trajectory, i) =>
                /\ VecEq(ret[1], PyItem(args.position_trajectory, i))
                /\ VecEq(ret[2], ForwardDifference(args, i))
                /\ FEq(ret[3], PyItem(args.yaw_trajectory, i))

\* sampled at an interior waypoint of a trajectory that moves and turns
C4_Witness ==
    /\ op = "trajectory_control"
    /\ Len(args.time_trajectory) = 3
    /\ args.current_time = PyItem(args.time_trajectory, 1)
    /\ ~VecEq(PyItem(args.position_trajectory, 0), PyItem(args.position_trajectory, 1))
    /\ ~VecEq(PyItem(args.position_trajectory, 1), PyItem(args.position_trajectory, 2))
    /\ ~FEq(PyItem(args.yaw_trajectory, 0), PyItem(args.yaw_trajectory, 1))
    /\ VecEq(ret[1], PyItem(args.position_trajectory, 1))

\* C5: sampled at or after the final timestamp, trajectory_control returns
\* the final waypoint's position and yaw and the velocity (0, 0, 0).
C5_HoldPastFinalWaypoint ==
    (op = "trajectory_control"
        /\ FLe(PyItem(args.time_trajectory, -1), args.current_time)) =>
        /\ VecEq(ret[1], PyItem(args.position_trajectory, -1))
        /\ VecEq(ret[2], <<Q(0, 1), Q(0, 1), Q(0, 1)>>)
        /\ FEq(ret[3], PyItem(args.yaw_trajectory, -1))

\* sampled strictly after the final timestamp of a trajectory whose last
\* segment moves
C5_Witness ==
    /\ op = "trajectory_control"
    /\ FLt(FAdd(PyItem(args.time_trajectory, -1), Q(1, 1)), args.current_time)
    /\ ~VecEq(PyItem(args.position_trajectory, -1), PyItem(args.position_trajectory, -2))
    /\ VecEq(ret[1], PyItem(args.position_trajectory, -1))

\* C9: the two waypoints trajectory_control interpolates between are
\* adjacent (k and k+1, with time0 = time_trajectory[k] < time1 =
\* time_trajectory[k+1]) or are both the final waypoint, never the last
\* paired with the first, for every current_time; and for a current_time
\* within the trajectory the pair's timestamps enclose it and yaw_cmd is
\* yaw_trajectory[k].
C9_BracketIsAdjacent ==
    op = "trajectory_control" =>
        LET n    == Len(args.time_trajectory)
            b    == bracket(args.position_trajectory, args.time_trajectory,
                            args.current_time)
            k0   == Resolve(b.i0, n)
            k1   == Resolve(b.i1, n)
            T(k) == PyItem(args.time_trajectory, k)
        IN  /\ \/ k1 = k0 + 1 /\ b.time0 = T(k0) /\ b.time1 = T(k1)
                  /\ FLt(b.time0, b.time1)
               \/ k0 = n - 1 /\ k1 = n - 1
            /\ ~(k0 = n - 1 /\ k1 = 0)
            /\ (FLe(T(0), args.current_time) /\ FLe(args.current_time, T(n - 1))) =>
                   /\ FLe(T(k0), args.current_time)
                   /\ FLe(args.current_time, T(k1))
                   /\ FEq(ret[3], PyItem(args.yaw_trajectory, k0))

\* C6: with the roll beyond +-max_roll_rad the roll rate that
\* roll_pitch_controller returns is exactly 0, and with the pitch beyond
\* +-max_pitch_rad the pitch rate is exactly 0, also when R[2,2] is zero.
C6_RatesZeroBeyondMaxAngle ==
    op = "roll_pitch_controller" =>
        LET roll  == args.attitude[1]
            pitch == args.attitude[2]
        IN  /\ (AngleGt(roll, env.self.max_roll_rad)
                    \/ AngleLt(roll, FNeg(env.self.max_roll_rad))) => IsZero(ret[1])
            /\ (AngleGt(pitch, env.self.max_pitch_rad)
                    \/ AngleLt(pitch, FNeg(env.self.max_pitch_rad))) => IsZero(ret[2])

\* the roll is below -max_roll_rad and R[2,2] is zero: the roll rate is 0
\* and the pitch rate, not clamped, is not a finite number
C6_Witness ==
    /\ op = "roll_pitch_controller"
    /\ AngleLt(args.attitude[1], FNeg(env.self.max_roll_rad))
    /\ ~AngleGt(args.attitude[2], env.self.max_pitch_rad)
    /\ ~AngleLt(args.attitude[2], FNeg(env.self.max_pitch_rad))
    /\ IsZero(BzOf(args.attitude))
    /\ IsZero(ret[1])
    /\ ~IsFinite(ret[2])

\* the method named name applied to the arguments a in the state e
Invoke(name, e, a) ==
    CASE name = "trajectory_control" ->
            trajectory_control(e, a.position_trajectory, a.yaw_trajectory,
                               a.time_trajectory, a.current_time)
      [] name = "lateral_position_control" ->
            lateral_position_control(e, a.local_position_cmd, a.local_velocity_cmd,
                                     a.local_position, a.local_velocity,
                                     a.acceleration_ff)
      [] name = "altitude_control" ->
            altitude_control(e, a.altitude_cmd, a.vertical_velocity_cmd, a.altitude,
                             a.vertical_velocity, a.attitude, a.acceleration_ff)
      [] name = "roll_pitch_controller" ->
            roll_pitch_controller(e, a.acceleration_cmd, a.attitude, a.thrust_cmd)
      [] name = "body_rate_control" ->
            body_rate_control(e, a.body_rate_cmd, a.body_rate)
      [] name = "yaw_control" ->
            yaw_control(e, a.yaw_cmd, a.yaw)

\* C7: no call changes the configuration, the module's MOI array or the
\* shared default acceleration_ff array, and every call returns what the
\* same call returns as the first call on a controller just constructed
\* with the same configuration.
C7_CallsLeaveNoTrace ==
    [][/\ env' = env
       /\ op' /= "idle" => ret' = Invoke(op', __init__(env.self), args').ret]_vars

\* lateral_position_control has returned from a call that left
\* acceleration_ff to its default
C7_Witness ==
    /\ op = "lateral_position_control"
    /\ args.acceleration_ff = Omitted
    /\ env = __init__(env.self)
    /\ env.self /= DefaultGains

\* the value lines 123-131 compute, with x_k_p on both position errors
LateralFormula(self, a, ff) ==
    LET x_err     == FSub(a.local_position_cmd[1], a.local_position[1])
        x_dot_err == FSub(a.local_velocity_cmd[1], a.local_velocity[1])
        y_err     == FSub(a.local_position_cmd[2], a.local_position[2])
        y_dot_err == FSub(a.local_velocity_cmd[2], a.local_velocity[2])
    IN  << FNeg(FAdd(FAdd(FMul(self.x_k_p, x_err), FMul(self.x_k_d, x_dot_err)), ff[1])),
           FNeg(FAdd(FAdd(FMul(self.x_k_p, y_err), FMul(self.y_k_d, y_dot_err)), ff[2])) >>

\* the gains tried in place of a controller's own
OtherGains == { g.y_k_p : g \in Gains } \cup { g.y_k_d : g \in Gains }

\* C10: lateral_position_control returns
\* [-(x_k_p*x_err + x_k_d*x_dot_err + ff_x), -(x_k_p*y_err + y_k_d*y_dot_err + ff_y)]
\* unclipped; a controller that differs only in y_k_p returns the same, and
\* the north component depends neither on y_k_d nor on any y input.
C10_EastUsesXGain ==
    op = "lateral_position_control" =>
        LET ff == IF args.acceleration_ff = Omitted
                  THEN <<Q(0, 1), Q(0, 1)>> ELSE args.acceleration_ff
            result(e, a) ==
                lateral_position_control(e, a.local_position_cmd, a.local_velocity_cmd,
                                         a.local_position, a.local_velocity,
                                         a.acceleration_ff).ret
        IN  /\ VecEq(ret, LateralFormula(env.self, args, ff))
            /\ \A g \in OtherGains :
                   /\ result([env EXCEPT !.self.y_k_p = g], args) = ret
                   /\ result([env EXCEPT !.self.y_k_d = g], args)[1] = ret[1]
            /\ \A pc \in PositionCmds, vc \in VelocityCmds :
                   result(env, [args EXCEPT !.local_position_cmd[2] = pc[2],
                                            !.local_velocity_cmd[2] = vc[2],
                                            !.local_position[2] = pc[1],
                                            !.local_velocity[2] = vc[1]])[1] = ret[1]

\* a controller whose y_k_p is not its x_k_p was called with an east
\* position error
C10_Witness ==
    /\ op = "lateral_position_control"
    /\ env.self.y_k_p /= env.self.x_k_p
    /\ args.local_position_cmd[2] /= args.local_position[2]
    /\ ~IsZero(ret[2])

=============================================================================
